---- MODULE Spec2Model ----
(***************************************************************************)
(* Model of the grass-hecras scripts:                                      *)
(*   v.xsections      station and cross-section synthesis                  *)
(*   v.out.hecras     export of the stream network (CENTERLINE sections)   *)
(*   v.in.hecras      import of WATER SURFACE EXTENT rows into a boundary  *)
(*   v.in.hecras_banks import of CUT LINE / BANK POSITIONS rows            *)
(* Each script's state is one record variable whose fields carry the       *)
(* names of the script's local variables.                                  *)
(***************************************************************************)
EXTENDS Integers, Sequences, FiniteSets, TLC

VARIABLES xs, oc, ws, bk

vars == <<xs, oc, ws, bk>>

(***************************************************************************)
(* Bounds of the model                                                     *)
(***************************************************************************)
\* largest reach length, in units of 1/LenScale
MaxLen == 5
\* largest station spacing
MaxSpacing == 2
\* largest cross-section width
MaxWidth == 3
\* most lines in a water-surface input file
MaxLines == 6
\* most lines in a bank-position input file
MaxBankLines == 10
\* longest list handed directly to create_banks
MaxList == 3
\* turns followed of a station loop that does not end
MaxEmit == 3

\* reach lengths are reals: they are kept as multiples of 1/LenScale
LenScale == 2

(***************************************************************************)
(* Generic helpers                                                         *)
(***************************************************************************)
Range(s) == {s[k] : k \in 1..Len(s)}

Reverse(s) == [k \in 1..Len(s) |-> s[Len(s) + 1 - k]]

\* the orderings of a finite set, as sequences without repetition
Orderings(S) == {f \in [1..Cardinality(S) -> S] : Range(f) = S}

\* the sequences over S of length at most n
SeqsUpTo(S, n) == UNION {[1..k -> S] : k \in 0..n}

RECURSIVE Pow10(_)
Pow10(n) == IF n = 0 THEN 1 ELSE 10 * Pow10(n - 1)

RECURSIVE Digits(_)
\* number of decimal digits python prints for a non-negative integer
Digits(n) == IF n < 10 THEN 1 ELSE 1 + Digits(n \div 10)

(***************************************************************************)
(* v.xsections: composite station ids                                      *)
(***************************************************************************)
\* field width of "%03d"
PadWidth == 3
\* divisor of the reach_id query "cat/1000"
IdDivisor == 1000

\* "%03d" % pt : zero padded to 3 digits, longer when pt needs more
Pad3Width(pt) == IF Digits(pt) < PadWidth THEN PadWidth ELSE Digits(pt)

\* pt_id = c + "%03d" % pt, read back as the integer category it denotes
PtIdShort(c, pt) == c * Pow10(IF Digits(pt) < 2 THEN 2 ELSE Digits(pt)) + pt
PtId(c, pt) == c * Pow10(Pad3Width(pt)) + pt

\* the column reach_id is filled by the query cat/1000
ReachIdOf(cat) == cat \div IdDivisor

\* math.floor of a length kept in units of 1/LenScale
Floor(x) == x \div LenScale

\* the test of the station loops: station <= reach_len
WhileCondStrict(station, reach_len) == station < reach_len
WhileCond(station, reach_len) == station <= reach_len

\* half_width = int(width)/2 : integer division (the scripts are Python 2)
HalfWidth(width) == width \div 2

(***************************************************************************)
(* v.xsections: state                                                      *)
(***************************************************************************)
\* cats is the dictionary reach category -> reach length, as the sequence of
\* its items in the order the dictionary iterates them
CatsChoices(ids, lens) ==
    UNION {{[k \in 1..Len(o) |-> [c |-> o[k], len |-> l[k]]] :
              l \in [1..Len(o) -> lens]} :
           o \in UNION {Orderings(S) : S \in (SUBSET ids) \ {{}}}}

XsIdle == [pc |-> "idle"]

\* the state at the head of the station loop of create_stations_schematic,
\* for the dictionary cats returned by create_river_network
XsStart(cats, spacing, width) ==
    [pc |-> "stations_for", cats |-> cats, spacing |-> spacing, width |-> width,
     ci |-> 0, station |-> 0, pt |-> 0, station_cnt |-> 0,
     tmp_stations |-> <<>>, stations |-> <<>>,
     pi |-> 1, tmp_pairs |-> <<>>, xsect_cnt |-> 0,
     river_found |-> TRUE, flag_s |-> FALSE, smooth_river |-> TRUE,
     thresh |-> FALSE, river |-> cats,
     layers |-> {"smooth_river"}, temps |-> {"tmp_stations"},
     failed |-> "none", order |-> <<1, 2, 3>>,
     xsect_cats |-> <<>>, coord_list |-> <<>>, tmp_xsects |-> <<>>, i |-> 0]

OcIdle == [pc |-> "idle"]
WsIdle == [pc |-> "idle"]
BkIdle == [pc |-> "idle"]

Init ==
    /\ \E cats \in CatsChoices({1, 2}, 0..MaxLen),
          spacing \in 1..MaxSpacing, width \in 1..MaxWidth :
          xs = XsStart(cats, spacing, width)
    /\ oc = OcIdle
    /\ ws = WsIdle
    /\ bk = BkIdle

(***************************************************************************)
(* Calls of GRASS modules                                                  *)
(*                                                                         *)
(* The scripts call the modules through grass.run_command and              *)
(* grass.read_command and never look at what these return.  A module that  *)
(* reports an error ends the call in one of two ways, depending on the     *)
(* grass.script library: the call returns the exit code ("failed": the     *)
(* script goes on, as with GRASS 7.0, for which the scripts were adapted), *)
(* or the call raises an exception nothing catches ("raised").             *)
(***************************************************************************)
CallOutcomes == {"ok", "failed", "raised"}

\* the first step that reported an error
FirstFailure(failed, step) == IF failed = "none" THEN step ELSE failed

(***************************************************************************)
(* v.xsections: create_stations_schematic                                  *)
(***************************************************************************)
\* for c in cats: next reach, or leave the loop
StationsFor ==
    /\ xs.pc = "stations_for"
    /\ IF xs.ci < Len(xs.cats)
       THEN xs' = [xs EXCEPT !.ci = xs.ci + 1, !.station = 0, !.pt = 0,
                             !.pc = "stations_while"]
       ELSE xs' = [xs EXCEPT !.pc = "stations_segment"]
    /\ UNCHANGED <<oc, ws, bk>>

\* one turn of: while station <= reach_len.  spacing is an option of type
\* integer, so station stays a whole number; it is kept in units of
\* 1/LenScale like reach_len.  The field seq of a written line is the value
\* of pt it was built from (not part of the file).  With a spacing that is
\* not positive the loop never ends: the model follows it for MaxEmit turns.
StationsWhile ==
    /\ xs.pc = "stations_while"
    /\ xs.spacing > 0 \/ xs.station_cnt < MaxEmit
    /\ LET c == xs.cats[xs.ci].c
           reach_len == xs.cats[xs.ci].len
       IN IF WhileCond(xs.station, reach_len)
          THEN LET pt == xs.pt + 1
                   pt_id == PtId(c, pt)
                   st1 == Floor(xs.station)
               IN xs' = [xs EXCEPT
                     !.pt = pt,
                     !.tmp_stations = Append(@, [id |-> pt_id, c |-> c,
                                                  st |-> st1, seq |-> pt]),
                     !.station = @ + xs.spacing * LenScale,
                     !.station_cnt = @ + 1]
          ELSE xs' = [xs EXCEPT !.pc = "stations_for"]
    /\ UNCHANGED <<oc, ws, bk>>

\* v.segment places one point per line of the file, the temp file is
\* unlinked, v.to.db fills x, y and reach_id
StationsSegment ==
    /\ xs.pc = "stations_segment"
    /\ \E outcome \in CallOutcomes :
          CASE outcome = "ok" ->
                 xs' = [xs EXCEPT
                    !.stations = [k \in 1..Len(xs.tmp_stations) |->
                                    [cat |-> xs.tmp_stations[k].id,
                                     line |-> xs.tmp_stations[k].c,
                                     dist |-> xs.tmp_stations[k].st,
                                     reach_id |-> ReachIdOf(xs.tmp_stations[k].id)]],
                    !.layers = @ \cup {"stations"},
                    !.temps = @ \ {"tmp_stations"},
                    !.ci = 0, !.station = 0,
                    !.pc = "xsections_begin"]
            [] outcome = "failed" ->
                 xs' = [xs EXCEPT
                    !.failed = FirstFailure(@, "create_stations_schematic"),
                    !.temps = @ \ {"tmp_stations"},
                    !.ci = 0, !.station = 0,
                    !.pc = "xsections_begin"]
            [] outcome = "raised" ->
                 xs' = [xs EXCEPT
                    !.failed = FirstFailure(@, "create_stations_schematic"),
                    !.pc = "CalledModuleError"]
    /\ UNCHANGED <<oc, ws, bk>>

(***************************************************************************)
(* v.xsections: create_cross_sections (parameter file)                     *)
(***************************************************************************)
\* pi += 1
NextPiSkip(pi) == pi + 2
NextPi(pi) == pi + 1

\* the temp file for the point parameters, the name of the temporary map
XsectionsBegin ==
    /\ xs.pc = "xsections_begin"
    /\ xs' = [xs EXCEPT !.temps = @ \cup {"tmp_pairs"}, !.pi = 1,
                        !.pc = "xsections_for"]
    /\ UNCHANGED <<oc, ws, bk>>

XsectionsFor ==
    /\ xs.pc = "xsections_for"
    /\ IF xs.ci < Len(xs.cats)
       THEN xs' = [xs EXCEPT !.ci = xs.ci + 1, !.station = 0,
                             !.pc = "xsections_while"]
       ELSE xs' = [xs EXCEPT !.pc = "xsections_segment"]
    /\ UNCHANGED <<oc, ws, bk>>

XsectionsWhile ==
    /\ xs.pc = "xsections_while"
    /\ xs.spacing > 0 \/ Len(xs.tmp_pairs) < 3 * MaxEmit
    /\ LET c == xs.cats[xs.ci].c
           l == xs.cats[xs.ci].len
           half_width == HalfWidth(xs.width)
       IN IF WhileCond(xs.station, l)
          THEN LET stat == Floor(xs.station)
               IN xs' = [xs EXCEPT
                     !.tmp_pairs = @ \o
                        << [pi |-> xs.pi, c |-> c, stat |-> stat, off |-> -half_width],
                           [pi |-> xs.pi, c |-> c, stat |-> stat, off |-> 0],
                           [pi |-> xs.pi, c |-> c, stat |-> stat, off |-> half_width] >>,
                     !.station = @ + xs.spacing * LenScale,
                     !.pi = NextPi(@)]
          ELSE xs' = [xs EXCEPT !.pc = "xsections_for"]
    /\ UNCHANGED <<oc, ws, bk>>

NextXs ==
    \/ StationsFor
    \/ StationsWhile
    \/ StationsSegment
    \/ XsectionsBegin
    \/ XsectionsFor
    \/ XsectionsWhile

Spec == Init /\ [][NextXs]_vars

(***************************************************************************)
(* v.xsections: main, create_river_network, the cross-section lines and    *)
(* create_xsection_intersects                                              *)
(***************************************************************************)
\* if not smooth_river or not thresh (the fields tell whether the option
\* was given)
MissingSmoothNameOnly(smooth_river, thresh) == ~smooth_river
MissingSmoothOptions(smooth_river, thresh) == ~smooth_river \/ ~thresh

InitMain ==
    /\ \E river_found \in BOOLEAN, flag_s \in BOOLEAN, smooth_river \in BOOLEAN,
          thresh \in BOOLEAN, river \in CatsChoices({1, 2}, {1, MaxLen}),
          spacing \in (-1)..MaxSpacing, width \in 1..MaxWidth :
          xs = [XsStart(<<>>, spacing, width) EXCEPT
                   !.pc = "main", !.river_found = river_found,
                   !.flag_s = flag_s, !.smooth_river = smooth_river,
                   !.thresh = thresh, !.river = river,
                   !.layers = {}, !.temps = {}]
    /\ oc = OcIdle
    /\ ws = WsIdle
    /\ bk = BkIdle

\* main: the river map must be in the current mapset, and with the flag s
\* both smooth options must be given
XsMain ==
    /\ xs.pc = "main"
    /\ xs' = [xs EXCEPT !.pc =
                IF ~xs.river_found THEN "fatal"
                ELSE IF xs.flag_s /\ MissingSmoothOptions(xs.smooth_river, xs.thresh)
                     THEN "fatal"
                     ELSE "river_network"]
    /\ UNCHANGED <<oc, ws, bk>>

\* create_river_network: v.generalize or g.copy makes the working copy of
\* the river (an empty output name makes the call fail), the columns are
\* added and filled, and the reach lengths are read into the dictionary.
\* Then create_stations_schematic opens its temp file.
CreateRiverNetwork ==
    /\ xs.pc = "river_network"
    /\ \E outcome \in (IF xs.smooth_river THEN CallOutcomes
                                          ELSE {"failed", "raised"}) :
          CASE outcome = "ok" ->
                 xs' = [xs EXCEPT !.layers = @ \cup {"smooth_river"},
                                  !.cats = xs.river,
                                  !.temps = @ \cup {"tmp_stations"},
                                  !.pc = "stations_for"]
            [] outcome = "failed" ->
                 xs' = [xs EXCEPT !.failed = FirstFailure(@, "create_river_network"),
                                  !.cats = <<>>,
                                  !.temps = @ \cup {"tmp_stations"},
                                  !.pc = "stations_for"]
            [] outcome = "raised" ->
                 xs' = [xs EXCEPT !.failed = FirstFailure(@, "create_river_network"),
                                  !.pc = "CalledModuleError"]
    /\ UNCHANGED <<oc, ws, bk>>

\* The points of the temporary map that a query with where="cat=" + c
\* returns.  The order in which the store returns the points of one category
\* is not fixed by the script: order is the order of this run.  The column
\* name gives the condition cat=cat, which every point satisfies.
\* An output line of v.out.ascii is a record: text tells whether it is the
\* line of a point or the empty string left after the last line end.
PointLine(p) == [text |-> "point", pi |-> p.pi, c |-> p.c, stat |-> p.stat,
                 off |-> p.off]
EmptyLine == [text |-> "", pi |-> 0, c |-> 0, stat |-> 0, off |-> 0]

\* A word of the output of v.db.select: the column name or a category
ColumnName == [name |-> TRUE, cat |-> 0]
Category(k) == [name |-> FALSE, cat |-> k]

PointsOfCat(k) ==
    [n \in 1..3 |-> PointLine(xs.tmp_pairs[3 * (k - 1) + xs.order[n]])]

RECURSIVE PointsUpTo(_)
PointsUpTo(k) == IF k = 0 THEN <<>> ELSE PointsUpTo(k - 1) \o PointsOfCat(k)

PointsWhere(c) ==
    IF c.name THEN PointsUpTo(Len(xs.tmp_pairs) \div 3) ELSE PointsOfCat(c.cat)

\* v.segment builds the temporary point map from the parameter file,
\* v.db.addtable gives it one row per category, and v.db.select, called
\* without the flag c, prints the column name and then the categories.
\* The second temp file is opened.
XsectionsSegment ==
    /\ xs.pc = "xsections_segment"
    /\ \E outcome \in CallOutcomes :
          CASE outcome = "ok" ->
                 \E order \in Orderings({1, 2, 3}) :
                    xs' = [xs EXCEPT
                       !.temps = @ \cup {"tmp_pairs_map", "tmp_xsects"},
                       !.order = order,
                       !.xsect_cats = <<ColumnName>> \o
                          [k \in 1..(Len(xs.tmp_pairs) \div 3) |-> Category(k)],
                       !.coord_list = <<>>, !.i = 0,
                       !.pc = "xsections_collect"]
            [] outcome = "failed" ->
                 xs' = [xs EXCEPT
                    !.failed = FirstFailure(@, "create_cross_sections"),
                    !.temps = @ \cup {"tmp_xsects"},
                    !.xsect_cats = <<>>, !.coord_list = <<>>, !.i = 0,
                    !.pc = "xsections_collect"]
            [] outcome = "raised" ->
                 xs' = [xs EXCEPT
                    !.failed = FirstFailure(@, "create_cross_sections"),
                    !.pc = "CalledModuleError"]
    /\ UNCHANGED <<oc, ws, bk>>

\* one turn of for i in range(len(xsect_cats)): the output of v.out.ascii
\* split at the line ends, which leaves an empty string after the last point
XsectionsCollect ==
    /\ xs.pc = "xsections_collect"
    /\ IF xs.i < Len(xs.xsect_cats)
       THEN \E outcome \in CallOutcomes :
               CASE outcome = "ok" ->
                      xs' = [xs EXCEPT
                         !.i = xs.i + 1,
                         !.coord_list = Append(@,
                            PointsWhere(xs.xsect_cats[xs.i + 1]) \o <<EmptyLine>>)]
                 [] outcome = "failed" ->
                      xs' = [xs EXCEPT
                         !.failed = FirstFailure(@, "create_cross_sections"),
                         !.i = xs.i + 1,
                         !.coord_list = Append(@, <<EmptyLine>>)]
                 [] outcome = "raised" ->
                      xs' = [xs EXCEPT
                         !.failed = FirstFailure(@, "create_cross_sections"),
                         !.pc = "CalledModuleError"]
       ELSE xs' = [xs EXCEPT !.i = 0, !.xsect_cnt = 0, !.pc = "xsections_write"]
    /\ UNCHANGED <<oc, ws, bk>>

\* one turn of for i in range(len(coord_list)): the first three entries are
\* taken as the three vertices of a line, the category is that of the first
XsectionsWrite ==
    /\ xs.pc = "xsections_write"
    /\ IF xs.i < Len(xs.coord_list)
       THEN LET coords == xs.coord_list[xs.i + 1]
            IN IF Len(coords) < 3 \/ \E n \in 1..3 : coords[n].text = ""
               THEN xs' = [xs EXCEPT !.pc = "IndexError"]
               ELSE xs' = [xs EXCEPT
                      !.i = xs.i + 1,
                      !.tmp_xsects = Append(@,
                         [pts |-> [n \in 1..3 |-> [c |-> coords[n].c,
                                                    stat |-> coords[n].stat,
                                                    off |-> coords[n].off]],
                          cat |-> coords[1].pi]),
                      !.xsect_cnt = @ + 1]
       ELSE xs' = [xs EXCEPT !.pc = "xsections_import"]
    /\ UNCHANGED <<oc, ws, bk>>

\* v.in.ascii builds the cross-section map, v.db.addtable and v.distance
\* fill its table; the first temp file is unlinked, the temporary point map
\* and a map tmp_lines, which was never made, are removed
XsectionsImport ==
    /\ xs.pc = "xsections_import"
    /\ \E outcome \in CallOutcomes :
          CASE outcome = "ok" ->
                 xs' = [xs EXCEPT
                    !.layers = @ \cup {"xsections"},
                    !.temps = @ \ {"tmp_pairs", "tmp_pairs_map"},
                    !.pc = "intersects"]
            [] outcome = "failed" ->
                 xs' = [xs EXCEPT
                    !.failed = FirstFailure(@, "create_cross_sections"),
                    !.temps = @ \ {"tmp_pairs", "tmp_pairs_map"},
                    !.pc = "intersects"]
            [] outcome = "raised" ->
                 xs' = [xs EXCEPT
                    !.failed = FirstFailure(@, "create_cross_sections"),
                    !.pc = "CalledModuleError"]
    /\ UNCHANGED <<oc, ws, bk>>

\* create_xsection_intersects: v.clean writes the break points and a dummy
\* map, v.info counts the points, the dummy map is removed; without the
\* output of v.info d['points'] raises.  Then cleanup().
XsectionIntersects ==
    /\ xs.pc = "intersects"
    /\ \E outcome \in CallOutcomes :
          CASE outcome = "ok" ->
                 xs' = [xs EXCEPT !.layers = @ \cup {"intersects"},
                                  !.pc = "done"]
            [] outcome = "failed" ->
                 xs' = [xs EXCEPT
                    !.failed = FirstFailure(@, "create_xsection_intersects"),
                    !.temps = @ \cup {"dummy_out"},
                    !.pc = "KeyError"]
            [] outcome = "raised" ->
                 xs' = [xs EXCEPT
                    !.failed = FirstFailure(@, "create_xsection_intersects"),
                    !.temps = @ \cup {"dummy_out"},
                    !.pc = "CalledModuleError"]
    /\ UNCHANGED <<oc, ws, bk>>

NextMain ==
    \/ XsMain
    \/ CreateRiverNetwork
    \/ NextXs
    \/ XsectionsSegment
    \/ XsectionsCollect
    \/ XsectionsWrite
    \/ XsectionsImport
    \/ XsectionIntersects

SpecMain == InitMain /\ [][NextMain]_vars

(***************************************************************************)
(* v.out.hecras: output_centerline, run on the maps v.xsections produced   *)
(***************************************************************************)
\* pi1 = pi + "1", pi2 = pi + "2" : one digit appended to the reach category
EndpointId(pi, digit) == pi * 10 + digit

\* the rows v.db.select returns for where reach_id = c
StationRows(c) == {xs.stations[k] : k \in {j \in 1..Len(xs.stations) :
                                              xs.stations[j].reach_id = c}}

\* the CENTERLINE lines of one reach: st_list walked from its last row to
\* its first
CenterlineLines(st_list) ==
    [k \in 1..Len(st_list) |->
        [line |-> st_list[Len(st_list) + 1 - k].line,
         dist |-> st_list[Len(st_list) + 1 - k].dist,
         cat |-> st_list[Len(st_list) + 1 - k].cat]]

\* v.category lists the reach categories; the ENDPOINT lines are written.
\* v.out.hecras reads the stations map; the steps of v.xsections after the
\* parameter file of the cross sections do not change that map
OutputCenterlineBegin ==
    /\ xs.pc = "xsections_segment"
    /\ oc.pc = "idle"
    /\ \E reach_cats \in Orderings({xs.cats[k].c : k \in 1..Len(xs.cats)}) :
          oc' = [pc |-> "reach_for", reach_cats |-> reach_cats, i |-> 0,
                 st_list |-> <<>>,
                 endpoints |-> [k \in 1..(2 * Len(reach_cats)) |->
                                  EndpointId(reach_cats[(k + 1) \div 2],
                                             2 - (k % 2))],
                 reaches |-> <<>>]
    /\ UNCHANGED <<xs, ws, bk>>

\* the head of a REACH paragraph, and the station rows of the reach read
\* from v.db.select in the order the database returns them
OutputCenterlineSelect ==
    /\ oc.pc = "reach_for"
    /\ IF oc.i < Len(oc.reach_cats)
       THEN \E st_list \in Orderings(StationRows(oc.reach_cats[oc.i + 1])) :
               oc' = [oc EXCEPT !.i = oc.i + 1, !.st_list = st_list,
                                !.pc = "reach_write"]
       ELSE oc' = [oc EXCEPT !.pc = "done"]
    /\ UNCHANGED <<xs, ws, bk>>

\* the CENTERLINE lines of the reach and its END: line
OutputCenterlineWrite ==
    /\ oc.pc = "reach_write"
    /\ oc' = [oc EXCEPT
          !.reaches = Append(@, [reach_id |-> oc.reach_cats[oc.i],
                                 from_point |-> EndpointId(oc.reach_cats[oc.i], 1),
                                 to_point |-> EndpointId(oc.reach_cats[oc.i], 2),
                                 centerline |-> CenterlineLines(oc.st_list)]),
          !.pc = "reach_for"]
    /\ UNCHANGED <<xs, ws, bk>>

NextOut ==
    \/ OutputCenterlineBegin
    \/ OutputCenterlineSelect
    \/ OutputCenterlineWrite

NextPipeline == NextXs \/ NextOut

SpecPipeline == Init /\ [][NextPipeline]_vars

(***************************************************************************)
(* v.out.hecras: main, up to the opening of the output file                *)
(*                                                                         *)
(* A file name is the sequence of its characters.                          *)
(***************************************************************************)
\* longest output name
MaxName == 5

NameChars == {"a", ".", "s", "d", "f", "F"}

\* str.lower() of one character, and of a name
LowerChar(ch) == IF ch = "F" THEN "f" ELSE ch
Lower(name) == [k \in 1..Len(name) |-> LowerChar(name[k])]

DotSdf == <<".", "s", "d", "f">>

\* output.lower()[-4] : the string made of the 4th character from the end
FourthFromEnd(name) == << Lower(name)[Len(name) - 3] >>

\* the input maps main looks for, in this order
OutInputs == <<"river", "stations", "xsections", "elevation">>

InitOutName ==
    /\ \E output \in SeqsUpTo(NameChars, MaxName) \ {<<>>},
          missing \in {"none"} \cup Range(OutInputs) :
          oc = [pc |-> "main", output |-> output, missing |-> missing,
                sdf |-> <<>>, opened |-> FALSE]
    /\ xs = XsIdle
    /\ ws = WsIdle
    /\ bk = BkIdle

\* main: each input map must be in the current mapset; the region is set
OutMain ==
    /\ oc.pc = "main"
    /\ oc' = [oc EXCEPT !.pc = IF oc.missing = "none" THEN "prepare" ELSE "fatal"]
    /\ UNCHANGED <<xs, ws, bk>>

\* if ".sdf" == output.lower()[-4]: sdf=output else: sdf=output+".sdf",
\* and the file is opened; the index raises for a name of fewer than 4
\* characters
OutPrepare ==
    /\ oc.pc = "prepare"
    /\ IF Len(oc.output) < 4
       THEN oc' = [oc EXCEPT !.pc = "IndexError"]
       ELSE oc' = [oc EXCEPT
                     !.sdf = IF DotSdf = FourthFromEnd(oc.output)
                             THEN oc.output
                             ELSE oc.output \o DotSdf,
                     !.opened = TRUE,
                     !.pc = "headers"]
    /\ UNCHANGED <<xs, ws, bk>>

NextOutName ==
    \/ OutMain
    \/ OutPrepare

SpecOutName == InitOutName /\ [][NextOutName]_vars

(***************************************************************************)
(* Input files of the import scripts                                       *)
(*                                                                         *)
(* A file is the sequence of its lines.  A line is a record: kind tells    *)
(* which marker text it contains and how many comma separated fields it    *)
(* has, no is its line number, from which its field values are derived so  *)
(* that the values of different lines differ.                              *)
(*   "WSE"   WATER SURFACE EXTENT:           (one field)                   *)
(*   "WSE4"  a line with the marker text and four fields                   *)
(*   "C4"    x1, y1, x2, y2                                                *)
(*   "C2"    x, y                                                          *)
(*   "CUT"   CUT LINE:                       (one field)                   *)
(*   "BANK"  BANK POSITIONS: f1, f2                                        *)
(* List indices are 1-based here and 0-based in the scripts.               *)
(***************************************************************************)
FileOf(kinds) == [k \in 1..Len(kinds) |-> [kind |-> kinds[k], no |-> k]]

Files(kindset, n) == {FileOf(kinds) : kinds \in SeqsUpTo(kindset, n)}

FieldCount(line) ==
    CASE line.kind \in {"C4", "WSE4"} -> 4
      [] line.kind \in {"C2", "BANK"} -> 2
      [] OTHER -> 1

\* line.strip().replace(" ", "").split(",")
SplitComma(line) == [f \in 1..FieldCount(line) |-> 10 * line.no + f]

\* bank fractions are kept in units of 1/FracScale
FracScale == 10

\* line.strip().split(':')[1].split(',') of a BANK POSITIONS line
SplitBank(line) == << line.no % 4, 5 + (line.no % 4) >>

(***************************************************************************)
(* v.in.hecras: read_sdf and create_water_surface                          *)
(***************************************************************************)
WsKinds == {"WSE", "WSE4", "C4", "C2"}

HasExtentMarker(line) == line.kind \in {"WSE", "WSE4"}

\* the line read after a marker found at index i
ExtentLineSkip(i) == i + 2
ExtentLine(i) == i + 1

\* ttl_pts = len(left_pairs)+len(right_pairs)+1
TtlPtsOpen(left_pairs, right_pairs) == Len(left_pairs) + Len(right_pairs)
TtlPts(left_pairs, right_pairs) == Len(left_pairs) + Len(right_pairs) + 1

WsStart(isfile, lines) ==
    [pc |-> "main", isfile |-> isfile, lines |-> lines, i |-> 0,
     left_pairs |-> <<>>, right_pairs |-> <<>>,
     ttl_pts |-> 0, header |-> FALSE, tmp |-> <<>>, j |-> 0,
     temps |-> {}, out_vect |-> <<>>, created |-> FALSE]

InitWater ==
    /\ \E isfile \in BOOLEAN :
          \E lines \in (IF isfile THEN Files(WsKinds, MaxLines) ELSE {<<>>}) :
             ws = WsStart(isfile, lines)
    /\ xs = XsIdle
    /\ oc = OcIdle
    /\ bk = BkIdle

\* main: the input file must exist
WsMain ==
    /\ ws.pc = "main"
    /\ ws' = [ws EXCEPT !.pc = IF ws.isfile THEN "read_for" ELSE "fatal"]
    /\ UNCHANGED <<xs, oc, bk>>

\* read_sdf: one turn of for i in range(len(lines)), or the return
WsReadSdf ==
    /\ ws.pc = "read_for"
    /\ IF ws.i < Len(ws.lines)
       THEN LET i == ws.i + 1
            IN IF HasExtentMarker(ws.lines[i])
               THEN IF ExtentLine(i) > Len(ws.lines)
                    THEN ws' = [ws EXCEPT !.i = i, !.pc = "IndexError"]
                    ELSE LET coords == SplitComma(ws.lines[ExtentLine(i)])
                         IN IF Len(coords) < 4
                            THEN ws' = [ws EXCEPT !.i = i, !.pc = "IndexError"]
                            ELSE ws' = [ws EXCEPT
                                   !.i = i,
                                   !.left_pairs = Append(@, <<coords[1], coords[2]>>),
                                   !.right_pairs = Append(@, <<coords[3], coords[4]>>)]
               ELSE ws' = [ws EXCEPT !.i = i]
       ELSE ws' = [ws EXCEPT !.pc = "create_water_surface"]
    /\ UNCHANGED <<xs, oc, bk>>

\* create_water_surface: temp file, vertex count, the lines VERTI: and B n
WsBegin ==
    /\ ws.pc = "create_water_surface"
    /\ ws' = [ws EXCEPT !.temps = {"tmp_coords"},
                        !.ttl_pts = TtlPts(ws.left_pairs, ws.right_pairs),
                        !.header = TRUE, !.tmp = <<>>, !.i = 0, !.pc = "write_left"]
    /\ UNCHANGED <<xs, oc, bk>>

\* for i in range(len(left_pairs))
WsWriteLeft ==
    /\ ws.pc = "write_left"
    /\ IF ws.i < Len(ws.left_pairs)
       THEN ws' = [ws EXCEPT !.i = ws.i + 1,
                             !.tmp = Append(@, ws.left_pairs[ws.i + 1])]
       ELSE ws' = [ws EXCEPT !.j = Len(ws.right_pairs), !.pc = "write_right"]
    /\ UNCHANGED <<xs, oc, bk>>

\* for j in range(len(right_pairs)-1, -1, -1)
WsWriteRight ==
    /\ ws.pc = "write_right"
    /\ IF ws.j >= 1
       THEN ws' = [ws EXCEPT !.j = ws.j - 1,
                             !.tmp = Append(@, ws.right_pairs[ws.j])]
       ELSE ws' = [ws EXCEPT !.pc = "write_close"]
    /\ UNCHANGED <<xs, oc, bk>>

\* the first left point once more; left_pairs[0] of an empty list raises
WsWriteClose ==
    /\ ws.pc = "write_close"
    /\ IF Len(ws.left_pairs) = 0
       THEN ws' = [ws EXCEPT !.pc = "IndexError"]
       ELSE ws' = [ws EXCEPT !.tmp = Append(@, ws.left_pairs[1]),
                             !.pc = "import"]
    /\ UNCHANGED <<xs, oc, bk>>

\* v.in.ascii builds the temporary vector, v.centroids the output vector
WsImport ==
    /\ ws.pc = "import"
    /\ ws' = [ws EXCEPT !.temps = @ \cup {"tmp_vect"},
                        !.out_vect = ws.tmp, !.created = TRUE,
                        !.pc = "remove"]
    /\ UNCHANGED <<xs, oc, bk>>

\* g.remove of the temporary vector, os.unlink of the temp file, cleanup()
WsRemove ==
    /\ ws.pc = "remove"
    /\ ws' = [ws EXCEPT !.temps = {}, !.pc = "done"]
    /\ UNCHANGED <<xs, oc, bk>>

NextWater ==
    \/ WsMain
    \/ WsReadSdf
    \/ WsBegin
    \/ WsWriteLeft
    \/ WsWriteRight
    \/ WsWriteClose
    \/ WsImport
    \/ WsRemove

SpecWater == InitWater /\ [][NextWater]_vars

(***************************************************************************)
(* v.in.hecras_banks: read_sdf and create_banks                            *)
(***************************************************************************)
BkKinds == {"CUT", "BANK", "C2"}

HasCutLine(line) == line.kind = "CUT"
HasBankPositions(line) == line.kind = "BANK"

\* the line tested for BANK POSITIONS after a marker found at index i
BankLineEarly(i) == i + 3
BankLine(i) == i + 4

\* cl_cnt <> bk_cnt
CountsDifferOneWay(cl_cnt, bk_cnt) == cl_cnt > bk_cnt
CountsDiffer(cl_cnt, bk_cnt) == cl_cnt # bk_cnt

\* str(float(f)*100) + "%" : a fraction as a percentage
Percent(f) == (f * 100) \div FracScale

BkStart(pc, isfile, lines, cutline_pts, bank_dist) ==
    [pc |-> pc, isfile |-> isfile, lines |-> lines, i |-> 0,
     cutline_pts |-> cutline_pts, bank_dist |-> bank_dist,
     temps |-> {}, out_vect |-> <<>>, created |-> FALSE]

InitBanks ==
    /\ \E isfile \in BOOLEAN :
          \E lines \in (IF isfile THEN Files(BkKinds, MaxBankLines) ELSE {<<>>}) :
             bk = BkStart("main", isfile, lines, <<>>, <<>>)
    /\ xs = XsIdle
    /\ oc = OcIdle
    /\ ws = WsIdle

\* main: the input file must exist
BkMain ==
    /\ bk.pc = "main"
    /\ bk' = [bk EXCEPT !.pc = IF bk.isfile THEN "read_for" ELSE "fatal"]
    /\ UNCHANGED <<xs, oc, ws>>

\* read_sdf: one turn of for i in range(len(lines)), or the return.
\* lines[i+1..i+3] are read first and their first two fields taken, the
\* cutline is appended, and only then lines[i+4] is looked at.
BkReadSdf ==
    /\ bk.pc = "read_for"
    /\ IF bk.i < Len(bk.lines)
       THEN LET i == bk.i + 1
            IN IF HasCutLine(bk.lines[i])
               THEN IF i + 3 > Len(bk.lines)
                    THEN bk' = [bk EXCEPT !.i = i, !.pc = "IndexError"]
                    ELSE LET coords1 == SplitComma(bk.lines[i + 1])
                             coords2 == SplitComma(bk.lines[i + 2])
                             coords3 == SplitComma(bk.lines[i + 3])
                         IN IF \/ Len(coords1) < 2 \/ Len(coords2) < 2
                               \/ Len(coords3) < 2
                            THEN bk' = [bk EXCEPT !.i = i, !.pc = "IndexError"]
                            ELSE LET cut == << <<coords1[1], coords1[2]>>,
                                               <<coords2[1], coords2[2]>>,
                                               <<coords3[1], coords3[2]>> >>
                                 IN IF BankLine(i) > Len(bk.lines)
                                    THEN bk' = [bk EXCEPT
                                           !.i = i,
                                           !.cutline_pts = Append(@, cut),
                                           !.pc = "IndexError"]
                                    ELSE IF HasBankPositions(bk.lines[BankLine(i)])
                                    THEN bk' = [bk EXCEPT
                                           !.i = i,
                                           !.cutline_pts = Append(@, cut),
                                           !.bank_dist = Append(@,
                                              SplitBank(bk.lines[BankLine(i)]))]
                                    ELSE bk' = [bk EXCEPT
                                           !.i = i,
                                           !.cutline_pts = Append(@, cut),
                                           !.pc = "fatal"]
               ELSE bk' = [bk EXCEPT !.i = i]
       ELSE bk' = [bk EXCEPT !.pc = "create_banks"]
    /\ UNCHANGED <<xs, oc, ws>>

\* create_banks: the count check, the two temp files, v.edit tool=create
BkBegin ==
    /\ bk.pc = "create_banks"
    /\ IF CountsDiffer(Len(bk.cutline_pts), Len(bk.bank_dist))
       THEN bk' = [bk EXCEPT !.pc = "fatal"]
       ELSE bk' = [bk EXCEPT !.temps = {"tmp_coords", "tmp_banks"},
                             !.created = TRUE, !.out_vect = <<>>,
                             !.i = 0, !.pc = "banks_for"]
    /\ UNCHANGED <<xs, oc, ws>>

\* one turn of for i in range(len(cutline_pts)): the cutline as a line
\* vector, its two bank points from v.segment, appended by v.patch
BkCutline ==
    /\ bk.pc = "banks_for"
    /\ IF bk.i < Len(bk.cutline_pts)
       THEN LET i == bk.i + 1
            IN bk' = [bk EXCEPT
                  !.i = i,
                  !.temps = @ \cup {"tmp_line", "tmp_pts"},
                  !.out_vect = @ \o
                     << [cat |-> 1, line |-> bk.cutline_pts[i],
                         pct |-> Percent(bk.bank_dist[i][1])],
                        [cat |-> 2, line |-> bk.cutline_pts[i],
                         pct |-> Percent(bk.bank_dist[i][2])] >>]
       ELSE bk' = [bk EXCEPT !.pc = "remove"]
    /\ UNCHANGED <<xs, oc, ws>>

\* os.unlink of the temp files, g.remove of the temporary vectors, cleanup()
BkRemove ==
    /\ bk.pc = "remove"
    /\ bk' = [bk EXCEPT !.temps = {}, !.pc = "done"]
    /\ UNCHANGED <<xs, oc, ws>>

NextCreateBanks ==
    \/ BkBegin
    \/ BkCutline
    \/ BkRemove

NextBanks ==
    \/ BkMain
    \/ BkReadSdf
    \/ NextCreateBanks

SpecBanks == InitBanks /\ [][NextBanks]_vars

\* create_banks called on its own, with lists of any lengths
CutlineChoices == { << <<11, 12>>, <<21, 22>>, <<31, 32>> >>,
                    << <<51, 52>>, <<61, 62>>, <<71, 72>> >> }
BankChoices == { <<1, 6>>, <<3, 8>> }

InitCreateBanks ==
    /\ \E cutline_pts \in SeqsUpTo(CutlineChoices, MaxList),
          bank_dist \in SeqsUpTo(BankChoices, MaxList) :
          bk = BkStart("create_banks", TRUE, <<>>, cutline_pts, bank_dist)
    /\ xs = XsIdle
    /\ oc = OcIdle
    /\ ws = WsIdle

SpecCreateBanks == InitCreateBanks /\ [][NextCreateBanks]_vars

\* a run in which reach 1 is long enough to need more than MaxSeq stations
MaxSeq == Pow10(PadWidth) - 1
OverflowLen == MaxSeq * LenScale

InitOverflow ==
    /\ \E cats \in CatsChoices({1, 11}, {0, OverflowLen}) :
          xs = XsStart(cats, 1, MaxWidth)
    /\ oc = OcIdle
    /\ ws = WsIdle
    /\ bk = BkIdle

SpecOverflow == InitOverflow /\ [][NextXs]_vars

(***************************************************************************)
(* Properties of v.xsections                                               *)
(***************************************************************************)
\* the lines of the station file written for reach c, in file order
StationLinesOf(c) == SelectSeq(xs.tmp_stations, LAMBDA r : r.c = c)

RECURSIVE SumCounts(_)
SumCounts(k) == IF k = 0 THEN 0
                ELSE Len(StationLinesOf(xs.cats[k].c)) + SumCounts(k - 1)

StationsWritten == xs.pc \notin {"stations_for", "stations_while"}

\* C1: for a reach of length L and a spacing S > 0 the station file holds
\* exactly floor(L/S) + 1 lines of that reach, at the distances 0, S, 2S, ...
\* and the returned station count is the sum of the per-reach counts.
C1_StationCount ==
    StationsWritten =>
       /\ \A k \in 1..Len(xs.cats) :
             LET rows == StationLinesOf(xs.cats[k].c)
                 n == (xs.cats[k].len \div (xs.spacing * LenScale)) + 1
             IN /\ Len(rows) = n
                /\ \A j \in 1..n : rows[j].st = (j - 1) * xs.spacing
       /\ xs.station_cnt = SumCounts(Len(xs.cats))

\* a reach of length 2.5 with spacing 1 got the stations 0, 1, 2, and a
\* reach whose length is a multiple of the spacing got its last station
C1_Witness ==
    /\ StationsWritten
    /\ xs.spacing = 1
    /\ \E k \in 1..Len(xs.cats) :
          /\ xs.cats[k].len = 5
          /\ Len(StationLinesOf(xs.cats[k].c)) = 3
    /\ \E k \in 1..Len(xs.cats) :
          /\ xs.cats[k].len = 4
          /\ Len(StationLinesOf(xs.cats[k].c)) = 3

\* C3: a composite id built from reach c and a sequence number in 1..999
\* decodes to c under division by 1000, so every station of a reach with at
\* most 999 stations has reach_id equal to the reach it lies on.
C3_DecodeEncode ==
    /\ \A k \in 1..Len(xs.tmp_stations) :
          xs.tmp_stations[k].seq \in 1..MaxSeq =>
             ReachIdOf(xs.tmp_stations[k].id) = xs.tmp_stations[k].c
    /\ \A ci \in 1..Len(xs.cats) :
          Len(StationLinesOf(xs.cats[ci].c)) <= MaxSeq =>
             \A k \in 1..Len(xs.stations) :
                xs.stations[k].line = xs.cats[ci].c =>
                   xs.stations[k].reach_id = xs.cats[ci].c

\* the 999th station of reach 11 is in the table with reach_id 11
C3_Witness ==
    \E k \in 1..Len(xs.stations) :
       /\ xs.stations[k].cat = PtId(11, MaxSeq)
       /\ xs.stations[k].line = 11
       /\ xs.stations[k].reach_id = 11

\* C4: for a station at distance d and a full width W the parameter file
\* holds the three lines (d, -W/2), (d, 0), (d, +W/2) in this order under one
\* line identifier, which no other station's lines carry.
C4_TripleAtHalfWidth ==
    /\ Len(xs.tmp_pairs) % 3 = 0
    /\ \A t \in 1..(Len(xs.tmp_pairs) \div 3) :
          LET a == xs.tmp_pairs[3 * t - 2]
              b == xs.tmp_pairs[3 * t - 1]
              d == xs.tmp_pairs[3 * t]
          IN /\ a.stat = b.stat /\ b.stat = d.stat
             /\ a.c = b.c /\ b.c = d.c
             /\ a.pi = b.pi /\ b.pi = d.pi
             /\ 2 * a.off = -xs.width
             /\ b.off = 0
             /\ 2 * d.off = xs.width
             /\ \A k \in 1..Len(xs.tmp_pairs) :
                   xs.tmp_pairs[k].pi = a.pi => k \in {3 * t - 2, 3 * t - 1, 3 * t}

\* C10: no station is given a reach_id other than the reach it lies on,
\* however many stations the reach has.
C10_NoForeignReachId ==
    \A k \in 1..Len(xs.stations) :
       xs.stations[k].reach_id = xs.stations[k].line

\* C9: the CENTERLINE points of every reach are written in upstream to
\* downstream order, that is by increasing distance along the reach,
\* whatever order the station query returned the rows in.
C9_CenterlineUpstreamFirst ==
    oc.pc # "idle" =>
       \A r \in 1..Len(oc.reaches) :
          \A k \in 1..(Len(oc.reaches[r].centerline) - 1) :
             oc.reaches[r].centerline[k].dist < oc.reaches[r].centerline[k + 1].dist

(***************************************************************************)
(* Properties of v.in.hecras                                               *)
(***************************************************************************)
\* the boundary file is complete
WsWritten == ws.pc \in {"import", "remove", "done"}

\* C2: for N >= 1 aligned left/right pairs the boundary has 2N+1 vertices,
\* the declared vertex count is the number of vertex lines, the first and
\* the last vertex are the same, and the vertices without the last one are
\* the left points in input order followed by the right points reversed.
C2_ClosedRing ==
    (WsWritten /\ Len(ws.left_pairs) >= 1
               /\ Len(ws.left_pairs) = Len(ws.right_pairs)) =>
       LET N == Len(ws.left_pairs)
       IN /\ Len(ws.tmp) = 2 * N + 1
          /\ ws.ttl_pts = Len(ws.tmp)
          /\ ws.tmp[1] = ws.tmp[Len(ws.tmp)]
          /\ SubSeq(ws.tmp, 1, Len(ws.tmp) - 1)
                = ws.left_pairs \o Reverse(ws.right_pairs)

\* two extent pairs l1-r1, l2-r2 were closed to the ring l1, l2, r2, r1, l1
C2_Witness ==
    /\ ws.pc = "done"
    /\ Len(ws.left_pairs) = 2
    /\ ws.out_vect = << ws.left_pairs[1], ws.left_pairs[2],
                        ws.right_pairs[2], ws.right_pairs[1], ws.left_pairs[1] >>
    /\ ws.right_pairs[1] # ws.right_pairs[2]

\* the indices of the marker lines among the first n lines, in file order
ExtentMarkers(n) == SelectSeq([k \in 1..n |-> k],
                              LAMBDA k : HasExtentMarker(ws.lines[k]))

WsReading == ws.pc = "read_for"
WsReturned == ws.pc \in {"create_water_surface", "write_left", "write_right",
                         "write_close", "import", "remove", "done"}

\* C8: the reader goes through the lines once, front to back; for every
\* marker line it takes the one line after it, and appends its fields 1-2
\* as a left pair and 3-4 as a right pair, so that the returned lists have
\* one entry per marker line, in file order.
C8_OnePairPerMarker ==
    (WsReading \/ WsReturned) =>
       LET n == IF WsReading THEN ws.i ELSE Len(ws.lines)
           M == ExtentMarkers(n)
       IN /\ Len(ws.left_pairs) = Len(M)
          /\ Len(ws.right_pairs) = Len(M)
          /\ \A k \in 1..Len(M) :
                /\ M[k] + 1 <= Len(ws.lines)
                /\ LET coords == SplitComma(ws.lines[M[k] + 1])
                   IN /\ Len(coords) = 4
                      /\ ws.left_pairs[k] = <<coords[1], coords[2]>>
                      /\ ws.right_pairs[k] = <<coords[3], coords[4]>>

\* a file with two markers, a line that is skipped between them, was read
C8_Witness ==
    /\ ws.pc = "create_water_surface"
    /\ Len(ws.left_pairs) = 2
    /\ \E k \in 1..Len(ws.lines) : ws.lines[k].kind = "C2"
    /\ ws.left_pairs[1][1] < ws.left_pairs[2][1]

(***************************************************************************)
(* Properties of v.in.hecras_banks                                         *)
(***************************************************************************)
\* C5: called with a cutline list and a bank-position list of different
\* lengths, create_banks ends in a fatal error before the output point layer
\* or any temporary file or layer is created.
C5_MismatchIsFatal ==
    Len(bk.cutline_pts) # Len(bk.bank_dist) =>
       /\ bk.pc \in {"create_banks", "fatal"}
       /\ ~bk.created
       /\ bk.out_vect = <<>>
       /\ bk.temps = {}

\* 3 cutlines and 2 bank-position pairs ended in the fatal error
C5_Witness ==
    /\ bk.pc = "fatal"
    /\ Len(bk.cutline_pts) = 3
    /\ Len(bk.bank_dist) = 2

\* the indices of the CUT LINE lines among the first n lines, in file order
CutMarkers(n) == SelectSeq([k \in 1..n |-> k],
                           LAMBDA k : HasCutLine(bk.lines[k]))

BkReading == bk.pc = "read_for"
BkReturned == bk.pc \in {"create_banks", "banks_for", "remove", "done"}

\* C6: once a CUT LINE line has been found whose 4th following line does not
\* contain BANK POSITIONS, or does not exist, the run has ended in the fatal
\* parse error.
C6_MissingBankIsFatal ==
    (bk.pc # "main" /\ bk.pc # "fatal") =>
       \A m \in 1..bk.i :
          HasCutLine(bk.lines[m]) =>
             /\ m + 4 <= Len(bk.lines)
             /\ HasBankPositions(bk.lines[m + 4])

\* C7: when read_sdf returns, its two lists have the same length, the Nth
\* cutline holds the three points of the lines after the Nth CUT LINE line
\* and the Nth bank pair the values of the 4th line after it; create_banks
\* places the Nth pair of bank points on the Nth cutline at these fractions.
C7_BankPairsAligned ==
    BkReturned =>
       LET M == CutMarkers(Len(bk.lines))
       IN /\ Len(bk.cutline_pts) = Len(M)
          /\ Len(bk.bank_dist) = Len(M)
          /\ \A n \in 1..Len(M) :
                /\ M[n] + 4 <= Len(bk.lines)
                /\ HasBankPositions(bk.lines[M[n] + 4])
                /\ bk.bank_dist[n] = SplitBank(bk.lines[M[n] + 4])
                /\ \A p \in 1..3 :
                      bk.cutline_pts[n][p] =
                         SubSeq(SplitComma(bk.lines[M[n] + p]), 1, 2)
          /\ Len(bk.out_vect) % 2 = 0
          /\ \A n \in 1..(Len(bk.out_vect) \div 2) :
                \A q \in 1..2 :
                   LET pt == bk.out_vect[2 * (n - 1) + q]
                   IN /\ pt.cat = q
                      /\ \A p \in 1..3 :
                            pt.line[p] = SubSeq(SplitComma(bk.lines[M[n] + p]), 1, 2)
                      /\ pt.pct * FracScale
                            = 100 * SplitBank(bk.lines[M[n] + 4])[q]
          /\ bk.pc \in {"remove", "done"} => Len(bk.out_vect) = 2 * Len(M)

\* a file with two cutlines was imported: four bank points, two per cutline
C7_Witness ==
    /\ bk.pc = "done"
    /\ Len(CutMarkers(Len(bk.lines))) = 2
    /\ Len(bk.out_vect) = 4
    /\ bk.out_vect[1].line # bk.out_vect[3].line
    /\ bk.out_vect[1].pct # bk.out_vect[3].pct

(***************************************************************************)
(* Properties of the v.xsections run                                       *)
(***************************************************************************)
\* C11: with a spacing S <= 0 the run reports a configuration error before
\* any station line is written and before any map is made; the station loop
\* is never entered.
C11_NonPositiveSpacingRejected ==
    (xs.pc # "idle" /\ xs.spacing <= 0) =>
       /\ xs.tmp_stations = <<>>
       /\ xs.layers = {}
       /\ xs.pc \notin {"stations_for", "stations_while"}

\* C12: every cross-section line has its vertices in the order left,
\* center, right, that is at the offsets -W/2, 0, +W/2 as they were written
\* to the parameter file, whatever order the temporary map returned the
\* three points in.
C12_LeftCenterRight ==
    xs.pc # "idle" =>
       \A k \in 1..Len(xs.tmp_xsects) :
          LET pts == xs.tmp_xsects[k].pts
          IN /\ pts[1].off = -HalfWidth(xs.width)
             /\ pts[2].off = 0
             /\ pts[3].off = HalfWidth(xs.width)

\* the run has left the operations that make temporary files and maps
XsOperationsEnded ==
    xs.pc \in {"xsections_begin", "intersects", "done", "fatal",
               "IndexError", "KeyError", "CalledModuleError"}
WsOperationsEnded == ws.pc \in {"done", "fatal", "IndexError"}
BkOperationsEnded == bk.pc \in {"done", "fatal", "IndexError"}

\* C13: when an operation has ended, by its return or by an error, none of
\* the temporary files and temporary maps it made is left.
C13_TempsReleased ==
    /\ XsOperationsEnded => xs.temps = {}
    /\ WsOperationsEnded => ws.temps = {}
    /\ BkOperationsEnded => bk.temps = {}

\* C14: once a call of a GRASS module has reported an error the run is
\* over: no further step is taken.
C14_FailureEndsRun ==
    [][(xs.pc # "idle" /\ xs.failed # "none") => xs' = xs]_vars

\* C16: when smoothing is asked for and the threshold or the name of the
\* smoothed map is missing, the run is rejected before any map or temporary
\* is made and before any module that makes or changes a map is called.
C16_SmoothOptionsChecked ==
    (xs.pc # "idle" /\ xs.flag_s /\ (~xs.smooth_river \/ ~xs.thresh)) =>
       /\ xs.pc \in {"main", "fatal"}
       /\ xs.layers = {}
       /\ xs.temps = {}
       /\ xs.failed = "none"
       /\ xs.tmp_stations = <<>>

\* the run with the flag s, a name for the smoothed map and no threshold
\* was rejected
C16_Witness ==
    /\ xs.pc = "fatal"
    /\ xs.river_found
    /\ xs.flag_s
    /\ xs.smooth_river
    /\ ~xs.thresh

\* C18: create_cross_sections writes one triple of parameter lines for each
\* station line of create_stations_schematic, for the same reach and the
\* same distance and in the same order, and the line identifiers of the
\* triples are 1, 2, ..., T, where T is the number of stations.
C18_TriplePerStation ==
    xs.pc = "xsections_segment" =>
       /\ Len(xs.tmp_pairs) = 3 * Len(xs.tmp_stations)
       /\ \A t \in 1..Len(xs.tmp_stations) :
             \A n \in 1..3 :
                /\ 3 * (t - 1) + n <= Len(xs.tmp_pairs)
                /\ xs.tmp_pairs[3 * (t - 1) + n].c = xs.tmp_stations[t].c
                /\ xs.tmp_pairs[3 * (t - 1) + n].stat = xs.tmp_stations[t].st
                /\ xs.tmp_pairs[3 * (t - 1) + n].pi = t

\* two reaches with 3 and 2 stations: the triples of the second reach carry
\* the identifiers 4 and 5
C18_Witness ==
    /\ xs.pc = "xsections_segment"
    /\ Len(xs.cats) = 2
    /\ Len(xs.tmp_stations) = 5
    /\ xs.tmp_stations[3].c # xs.tmp_stations[4].c
    /\ xs.tmp_pairs[15].pi = 5
    /\ xs.tmp_pairs[15].c = xs.tmp_stations[5].c

(***************************************************************************)
(* Further properties of v.in.hecras and v.out.hecras                      *)
(***************************************************************************)
\* C15: when the input file holds no WATER SURFACE EXTENT line, the import
\* ends in a fatal error and leaves nothing behind: no boundary text has
\* been written and no output vector has been made.
C15_NoExtentIsFatal ==
    (ws.pc \notin {"idle", "main", "read_for"} /\ ws.isfile
        /\ ExtentMarkers(Len(ws.lines)) = <<>>) =>
       /\ ws.pc \in {"create_water_surface", "fatal"}
       /\ ~ws.header
       /\ ws.tmp = <<>>
       /\ ~ws.created

\* the name ends with .sdf
EndsWithSdf(name) ==
    /\ Len(name) >= 4
    /\ SubSeq(name, Len(name) - 3, Len(name)) = DotSdf

\* C17: the export writes to the output path as given when it ends with
\* .sdf, and to the path with .sdf appended when it has no extension, for
\* every output name, also one of fewer than 4 characters.
C17_ImpliedExtension ==
    (oc.pc \in {"headers", "IndexError"}) =>
       /\ oc.pc = "headers"
       /\ EndsWithSdf(oc.output) => oc.sdf = oc.output
       /\ (\A k \in 1..Len(oc.output) : oc.output[k] # ".") =>
             oc.sdf = oc.output \o DotSdf

====
